---- MODULE Spec2Model ----
(***************************************************************************)
(* Model of src/app.py: a FastAPI application with two routes.             *)
(*   GET /    -> root(): the static greeting.                              *)
(*   GET /qa  -> qa(question): one blocking call to the chat-completion    *)
(*               service through openai_chat_completion, then the pair     *)
(*               {question, answer}.                                       *)
(* Handlers are plain `def` functions, so the framework runs each request  *)
(* on its own worker thread; the only point where a handler can be         *)
(* interleaved with another is the blocking call of line 15.               *)
(***************************************************************************)
EXTENDS Naturals, Sequences, FiniteSets

\* ---------------------------------------------------------------- bounds
MaxReq == 2
MaxChoices == 2

ReqIds == 1..MaxReq
Questions == {"", "a"}
Answers == {"x", "y"}
ErrorKinds == {"network", "auth", "rate_limit"}

\* ------------------------------------------------------------- constants
\* Python's None, as returned by os.getenv for an unset variable.
None == "<None>"
KeyName == "OPENAI_API_KEY"
DefaultModel == "gpt-3.5-turbo"
Persona == "You are a funny assistant."

\* The process environment (after load_dotenv): the credential is set or not.
NoVars == << >>
Environs == {NoVars, [OPENAI_API_KEY |-> "sk-1"]}

\* os.getenv(name): the value, or None when the variable is unset.
Getenv(environ, name) == IF name \in DOMAIN environ THEN environ[name] ELSE None

\* The query string of a request: no parameter, an unrelated parameter, or
\* question=<string> (the empty string included).
NoQuery == << >>
Queries == {NoQuery, [lang |-> "a"]} \cup {[question |-> q] : q \in Questions}

Paths == {"/", "/qa"}

NoReply == [kind |-> "none"]
NoResponse == [status |-> 0]
NoFrame == << >>

VARIABLES
    environ,   \* the process environment
    started,   \* module import (lines 7-11) has run
    api_key,   \* openai.api_key, the only process-wide value of the program
    envReads,  \* how many times the credential was read from the environment
    pc,        \* per request: "new", "received", "waiting", "done"
    path,      \* per request: the route requested
    query,     \* per request: the query string as sent by the caller
    frame,     \* per request: the locals of the running qa() call
    calls,     \* per request: the completion requests sent on its behalf
    reply,     \* per request: what the external service gave back
    response   \* per request: the HTTP response emitted

vars == <<environ, started, api_key, envReads, pc, path, query, frame, calls, reply, response>>

process == <<environ, started, api_key, envReads>>
requests == <<pc, path, query, frame, calls, reply, response>>

\* ------------------------------------------------------- pure functions
\* Lines 17-20: the conversation built for a question.
ReorderedMessages(question) ==
    << [role |-> "user", content |-> question],
       [role |-> "system", content |-> Persona] >>

ChatMessages(question) ==
    << [role |-> "system", content |-> Persona],
       [role |-> "user", content |-> question] >>

\* Lines 15-21: the completion request for a question and a model.
CompletionRequest(question, model) ==
    [model |-> model, messages |-> ChatMessages(question)]

\* Line 22: completion.choices[0] raises IndexError on an empty list.
Raises(completion) ==
    \/ completion.kind = "error"
    \/ completion.kind = "completion" /\ Len(completion.choices) = 0

\* Line 22: completion.choices[0].message["content"].
LastChoiceContent(completion) ==
    completion.choices[Len(completion.choices)].message.content

FirstChoiceContent(completion) == completion.choices[1].message.content

\* Line 27.
RootBody == [Hello |-> "World"]

\* Line 33.
SwappedBody(question, answer) == [question |-> answer, answer |-> question]

QABody(question, answer) == [question |-> question, answer |-> answer]

\* The framework's default answers to a binding failure and to an exception
\* that leaves a handler.
ValidationError == [status |-> 422, body |-> [detail |-> "Field required"]]
InternalServerError == [status |-> 500, body |-> [text |-> "Internal Server Error"]]
Ok(body) == [status |-> 200, body |-> body]

\* Line 31: `question: str` has no default, so the parameter is required.
Bound(q) == "question" \in DOMAIN q

\* What the external service may give back: a completion with 0..MaxChoices
\* choices, or a failure.
ChoiceLists ==
    UNION {[1..n -> {[message |-> [role |-> "assistant", content |-> a]] : a \in Answers}]
           : n \in 0..MaxChoices}
Completions == {[kind |-> "completion", choices |-> cs] : cs \in ChoiceLists}
Failures == {[kind |-> "error", error |-> e] : e \in ErrorKinds}

\* ------------------------------------------------------------------ Init
Init ==
    /\ environ \in Environs
    /\ started = FALSE
    /\ api_key = None
    /\ envReads = 0
    /\ pc = [r \in ReqIds |-> "new"]
    /\ path = [r \in ReqIds |-> "/"]
    /\ query = [r \in ReqIds |-> NoQuery]
    /\ frame = [r \in ReqIds |-> NoFrame]
    /\ calls = [r \in ReqIds |-> << >>]
    /\ reply = [r \in ReqIds |-> NoReply]
    /\ response = [r \in ReqIds |-> NoResponse]

\* --------------------------------------------------------------- actions
\* Lines 7-11: load_dotenv(), openai.api_key = os.getenv(...), app = FastAPI().
\* Nothing tests the value read.
Startup ==
    /\ ~started
    /\ started' = TRUE
    /\ api_key' = Getenv(environ, KeyName)
    /\ envReads' = envReads + 1
    /\ UNCHANGED <<environ, requests>>

\* A request reaches the served application.
Arrive(r, p, q) ==
    /\ started
    /\ pc[r] = "new"
    /\ \A s \in ReqIds : s < r => pc[s] # "new"
    /\ pc' = [pc EXCEPT ![r] = "received"]
    /\ path' = [path EXCEPT ![r] = p]
    /\ query' = [query EXCEPT ![r] = q]
    /\ UNCHANGED <<process, frame, calls, reply, response>>

\* Lines 25-27.
RootEcho(r) ==
    /\ pc[r] = "received"
    /\ path[r] = "/"
    /\ pc' = [pc EXCEPT ![r] = "done"]
    /\ response' = [response EXCEPT ![r] = IF query[r] = NoQuery THEN Ok(RootBody) ELSE Ok(query[r])]
    /\ UNCHANGED <<process, path, query, frame, calls, reply>>

root(r) ==
    /\ pc[r] = "received"
    /\ path[r] = "/"
    /\ pc' = [pc EXCEPT ![r] = "done"]
    /\ response' = [response EXCEPT ![r] = Ok(RootBody)]
    /\ UNCHANGED <<process, path, query, frame, calls, reply>>

\* Lines 30-32 up to the blocking call of line 15: the framework binds the
\* required parameter (a client error when it is absent, and qa() is never
\* entered), then qa() calls openai_chat_completion(question) with the default
\* model, which hands one completion request to the client and blocks.
qa_default(r) ==
    /\ pc[r] = "received"
    /\ path[r] = "/qa"
    /\ LET question == IF Bound(query[r]) THEN query[r].question ELSE ""
       IN /\ pc' = [pc EXCEPT ![r] = "waiting"]
          /\ frame' = [frame EXCEPT ![r] = [question |-> question]]
          /\ calls' = [calls EXCEPT ![r] = Append(@, CompletionRequest(question, DefaultModel))]
          /\ UNCHANGED response
    /\ UNCHANGED <<process, path, query, reply>>

qa_reload(r) ==
    /\ pc[r] = "received"
    /\ path[r] = "/qa"
    /\ IF ~Bound(query[r])
       THEN /\ pc' = [pc EXCEPT ![r] = "done"]
            /\ response' = [response EXCEPT ![r] = ValidationError]
            /\ UNCHANGED <<frame, calls, api_key, envReads>>
       ELSE /\ pc' = [pc EXCEPT ![r] = "waiting"]
            /\ frame' = [frame EXCEPT ![r] = [question |-> query[r].question]]
            /\ calls' = [calls EXCEPT ![r] =
                            Append(@, CompletionRequest(query[r].question, DefaultModel))]
            /\ api_key' = Getenv(environ, KeyName)
            /\ envReads' = envReads + 1
            /\ UNCHANGED response
    /\ UNCHANGED <<environ, started, path, query, reply>>

qa(r) ==
    /\ pc[r] = "received"
    /\ path[r] = "/qa"
    /\ IF ~Bound(query[r])
       THEN /\ pc' = [pc EXCEPT ![r] = "done"]
            /\ response' = [response EXCEPT ![r] = ValidationError]
            /\ UNCHANGED <<frame, calls>>
       ELSE /\ pc' = [pc EXCEPT ![r] = "waiting"]
            /\ frame' = [frame EXCEPT ![r] = [question |-> query[r].question]]
            /\ calls' = [calls EXCEPT ![r] =
                            Append(@, CompletionRequest(query[r].question, DefaultModel))]
            /\ UNCHANGED response
    /\ UNCHANGED <<process, path, query, reply>>

\* The external service (through the client library) completes the outstanding
\* call of line 15 with a completion object.  Without a credential the client
\* cannot authenticate, so no completion comes back.
ServiceAnswer(r, c) ==
    /\ pc[r] = "waiting"
    /\ reply[r] = NoReply
    /\ api_key # None
    /\ reply' = [reply EXCEPT ![r] = c]
    /\ UNCHANGED <<process, pc, path, query, frame, calls, response>>

\* The outstanding call of line 15 fails: the client raises.
ServiceFail(r, f) ==
    /\ pc[r] = "waiting"
    /\ reply[r] = NoReply
    /\ api_key = None => f.error = "auth"
    /\ reply' = [reply EXCEPT ![r] = f]
    /\ UNCHANGED <<process, pc, path, query, frame, calls, response>>

\* Lines 22, 32-33 after the blocking call has come back: an exception (of the
\* client, or of choices[0]) leaves both functions uncaught and the framework
\* answers with its server error; otherwise the first choice's content is the
\* answer and the pair is returned.  The frame is gone afterwards.
qa_resume_catch(r) ==
    /\ pc[r] = "waiting"
    /\ reply[r] # NoReply
    /\ pc' = [pc EXCEPT ![r] = "done"]
    /\ response' = [response EXCEPT ![r] =
                       IF Raises(reply[r])
                       THEN Ok(QABody(frame[r].question, ""))
                       ELSE Ok(QABody(frame[r].question, FirstChoiceContent(reply[r])))]
    /\ frame' = [frame EXCEPT ![r] = NoFrame]
    /\ UNCHANGED <<process, path, query, calls, reply>>

qa_resume_retry(r) ==
    /\ pc[r] = "waiting"
    /\ reply[r] # NoReply
    /\ IF Raises(reply[r]) /\ Len(calls[r]) < 2
       THEN /\ calls' = [calls EXCEPT ![r] = Append(@, @[1])]
            /\ reply' = [reply EXCEPT ![r] = NoReply]
            /\ UNCHANGED <<pc, response, frame>>
       ELSE /\ pc' = [pc EXCEPT ![r] = "done"]
            /\ response' = [response EXCEPT ![r] =
                               IF Raises(reply[r])
                               THEN InternalServerError
                               ELSE Ok(QABody(frame[r].question, FirstChoiceContent(reply[r])))]
            /\ frame' = [frame EXCEPT ![r] = NoFrame]
            /\ UNCHANGED <<calls, reply>>
    /\ UNCHANGED <<process, path, query>>

qa_resume_shared(r) ==
    /\ pc[r] = "waiting"
    /\ reply[r] # NoReply
    /\ \E s \in ReqIds :
          /\ reply[s] # NoReply
          /\ response' = [response EXCEPT ![r] =
                             IF Raises(reply[s])
                             THEN InternalServerError
                             ELSE Ok(QABody(frame[r].question, FirstChoiceContent(reply[s])))]
    /\ pc' = [pc EXCEPT ![r] = "done"]
    /\ frame' = [frame EXCEPT ![r] = NoFrame]
    /\ UNCHANGED <<process, path, query, calls, reply>>

qa_resume_timeout(r) ==
    /\ pc[r] = "waiting"
    /\ pc' = [pc EXCEPT ![r] = "done"]
    /\ response' = [response EXCEPT ![r] =
                       IF reply[r] = NoReply \/ Raises(reply[r])
                       THEN InternalServerError
                       ELSE Ok(QABody(frame[r].question, FirstChoiceContent(reply[r])))]
    /\ frame' = [frame EXCEPT ![r] = NoFrame]
    /\ UNCHANGED <<process, path, query, calls, reply>>

qa_resume(r) ==
    /\ pc[r] = "waiting"
    /\ reply[r] # NoReply
    /\ pc' = [pc EXCEPT ![r] = "done"]
    /\ response' = [response EXCEPT ![r] =
                       IF Raises(reply[r])
                       THEN InternalServerError
                       ELSE Ok(QABody(frame[r].question, FirstChoiceContent(reply[r])))]
    /\ frame' = [frame EXCEPT ![r] = NoFrame]
    /\ UNCHANGED <<process, path, query, calls, reply>>

\* ------------------------------------------------------------------ Next
Next ==
    \/ Startup
    \/ \E r \in ReqIds, p \in Paths, q \in Queries : Arrive(r, p, q)
    \/ \E r \in ReqIds : root(r)
    \/ \E r \in ReqIds : qa(r)
    \/ \E r \in ReqIds, c \in Completions : ServiceAnswer(r, c)
    \/ \E r \in ReqIds, f \in Failures : ServiceFail(r, f)
    \/ \E r \in ReqIds : qa_resume(r)

Spec == Init /\ [][Next]_vars

\* The same operations under the scheduling the worker pool gives: a worker
\* thread whose blocking call has come back is eventually run, while nothing
\* obliges the external service to answer.  Progress does not depend on what
\* the question or the choices say, so the inputs are drawn from the smallest
\* sets that keep every outcome: question absent or present, and a usable
\* completion, an empty one, or a failure.
LiveQueries == {NoQuery, [question |-> "a"]}
LiveCompletions == {c \in Completions : Len(c.choices) <= 1}

LiveNext ==
    \/ Startup
    \/ \E r \in ReqIds, p \in Paths, q \in LiveQueries : Arrive(r, p, q)
    \/ \E r \in ReqIds : root(r)
    \/ \E r \in ReqIds : qa(r)
    \/ \E r \in ReqIds, c \in LiveCompletions : ServiceAnswer(r, c)
    \/ \E r \in ReqIds, f \in Failures : ServiceFail(r, f)
    \/ \E r \in ReqIds : qa_resume(r)

FairSpec == Init /\ [][LiveNext]_vars /\ \A r \in ReqIds : WF_vars(qa_resume(r))

TypeOK ==
    /\ environ \in Environs
    /\ started \in BOOLEAN
    /\ envReads \in 0..1
    /\ \A r \in ReqIds :
          /\ pc[r] \in {"new", "received", "waiting", "done"}
          /\ path[r] \in Paths
          /\ query[r] \in Queries
          /\ reply[r] \in {NoReply} \cup Completions \cup Failures

\* ================================================================ claims
Finished(r) == pc[r] = "done"
QaWithQuestion(r) == pc[r] # "new" /\ path[r] = "/qa" /\ "question" \in DOMAIN query[r]
ClientError(resp) == resp.status \in 400..499
ServerError(resp) == resp.status \in 500..599
HasQAFields(resp) == "question" \in DOMAIN resp.body \/ "answer" \in DOMAIN resp.body

\* C1: a GET /qa request with a non-empty question Q that completes
\* successfully has a response whose question field is Q, whatever the answer.
C1_QuestionEchoed ==
    \A r \in ReqIds :
        (QaWithQuestion(r) /\ query[r].question # "" /\ Finished(r) /\ response[r].status = 200)
            => /\ "question" \in DOMAIN response[r].body
               /\ response[r].body.question = query[r].question

C1_Witness ==
    \E r \in ReqIds :
        /\ QaWithQuestion(r) /\ query[r].question = "a" /\ Finished(r)
        /\ response[r].status = 200
        /\ response[r].body.answer # "a"

\* C2: a GET /qa request without the question parameter never has a
\* completion call made for it, and when it ends it ends with a 4xx status.
C2_MissingQuestionRejected ==
    \A r \in ReqIds :
        (pc[r] # "new" /\ path[r] = "/qa" /\ "question" \notin DOMAIN query[r])
            => /\ pc[r] \in {"received", "done"}
               /\ calls[r] = << >>
               /\ reply[r] = NoReply
               /\ Finished(r) => ClientError(response[r])

C2_Witness ==
    \E r \in ReqIds :
        /\ path[r] = "/qa" /\ query[r] = [lang |-> "a"] /\ Finished(r)
        /\ response[r].status = 422

\* C3: when the completion call of a GET /qa request fails (the client raises,
\* or the completion has no choices) the request ends with a 5xx status and a
\* body without question/answer fields; before a request ends nothing at all
\* has been emitted for it.
C3_FailurePropagates ==
    \A r \in ReqIds :
        /\ (~Finished(r)) => response[r] = NoResponse
        /\ (Finished(r) /\ path[r] = "/qa" /\ reply[r] # NoReply
              /\ (reply[r].kind = "error" \/ reply[r].choices = << >>))
            => /\ ServerError(response[r])
               /\ ~HasQAFields(response[r])

C3_Witness ==
    \E r, s \in ReqIds :
        /\ Finished(r) /\ reply[r].kind = "error" /\ reply[r].error = "rate_limit"
        /\ Finished(s) /\ reply[s].kind = "completion" /\ reply[s].choices = << >>
        /\ response[r].status = 500 /\ response[s].status = 500

\* C4: every completion request sent for a question Q holds exactly the
\* system message with the persona text followed by the user message with Q,
\* for every Q, the empty string included.
C4_TwoMessages ==
    \A r \in ReqIds :
        \A i \in DOMAIN calls[r] :
            /\ Len(calls[r][i].messages) = 2
            /\ calls[r][i].messages[1] = [role |-> "system", content |-> "You are a funny assistant."]
            /\ "question" \in DOMAIN query[r]
            /\ calls[r][i].messages[2] = [role |-> "user", content |-> query[r].question]

C4_Witness ==
    \E r, s \in ReqIds :
        /\ calls[r] # << >> /\ query[r] = [question |-> ""]
        /\ calls[s] # << >> /\ query[s] = [question |-> "a"]

\* C5: when the service returned one or more choices, the request succeeds and
\* its answer field is the content of the first choice, whatever the later
\* choices are.
C5_FirstChoice ==
    \A r \in ReqIds :
        (Finished(r) /\ path[r] = "/qa" /\ reply[r].kind = "completion"
              /\ Len(reply[r].choices) >= 1)
            => /\ response[r].status = 200
               /\ "answer" \in DOMAIN response[r].body
               /\ response[r].body.answer = reply[r].choices[1].message.content

C5_Witness ==
    \E r \in ReqIds :
        /\ Finished(r) /\ reply[r].kind = "completion" /\ Len(reply[r].choices) = 2
        /\ reply[r].choices[1].message.content = "x"
        /\ reply[r].choices[2].message.content = "y"
        /\ response[r].status = 200

\* C6: GET / answers 200 {"Hello": "World"} whatever its parameters and
\* whatever other requests are around, and no completion call is made for it.
C6_RootStatic ==
    \A r \in ReqIds :
        (pc[r] # "new" /\ path[r] = "/")
            => /\ pc[r] \in {"received", "done"}
               /\ calls[r] = << >>
               /\ reply[r] = NoReply
               /\ Finished(r) => response[r] = [status |-> 200, body |-> [Hello |-> "World"]]

C6_Witness ==
    \E r, s \in ReqIds :
        /\ path[r] = "/" /\ query[r] = [question |-> "a"] /\ Finished(r)
        /\ path[s] = "/qa" /\ pc[s] = "waiting"

\* C7: a GET /qa request with a question has exactly one completion call from
\* the moment it is being handled, never a second one whether the first
\* succeeded or failed; the call precedes the response and names the default
\* model.
C7_ExactlyOneCall ==
    \A r \in ReqIds :
        QaWithQuestion(r)
            => /\ pc[r] = "received" => (calls[r] = << >> /\ response[r] = NoResponse)
               /\ pc[r] \in {"waiting", "done"} => Len(calls[r]) = 1
               /\ response[r] # NoResponse => Len(calls[r]) = 1
               /\ \A i \in DOMAIN calls[r] : calls[r][i].model = "gpt-3.5-turbo"

C7_Witness ==
    \E r, s \in ReqIds :
        /\ QaWithQuestion(r) /\ Finished(r) /\ reply[r].kind = "error" /\ Len(calls[r]) = 1
        /\ QaWithQuestion(s) /\ Finished(s) /\ response[s].status = 200 /\ Len(calls[s]) = 1

\* C8: requests are independent.  The response of a finished GET /qa request
\* is a function of its own question and of the reply to its own call, and a
\* step taken for one request changes nothing of any other request.
OwnOutcome(r) ==
    IF reply[r].kind = "error" \/ reply[r].choices = << >>
    THEN response[r].status = 500
    ELSE response[r] = [status |-> 200,
                        body |-> [question |-> query[r].question,
                                  answer |-> reply[r].choices[1].message.content]]

RequestState(r) == <<pc[r], path[r], query[r], frame[r], calls[r], reply[r], response[r]>>

C8_OwnData == \A r \in ReqIds : (QaWithQuestion(r) /\ Finished(r)) => OwnOutcome(r)

C8_OneRequestPerStep ==
    \A r, s \in ReqIds : (r # s /\ RequestState(r)' # RequestState(r)) => RequestState(s)' = RequestState(s)

C8_Independent == []C8_OwnData /\ [][C8_OneRequestPerStep]_vars

C8_Witness ==
    \E r, s \in ReqIds :
        /\ r # s /\ QaWithQuestion(r) /\ QaWithQuestion(s)
        /\ query[r].question # query[s].question
        /\ Finished(r) /\ response[r].status = 200
        /\ Finished(s) /\ response[s].status = 200
        /\ response[r].body.answer # response[s].body.answer

\* C9: while the completion call of a request is outstanding the request has
\* no response; nothing but the service's reply ends the wait; and once the
\* service has replied the request eventually ends, with 200 after a usable
\* completion and with 5xx after a failure.
C9_NoResponseWhileWaiting == \A r \in ReqIds : pc[r] = "waiting" => response[r] = NoResponse

C9_NoTimeout ==
    \A r \in ReqIds :
        (pc[r] = "waiting" /\ reply[r] = NoReply)
            => /\ pc'[r] = "waiting"
               /\ response'[r] = NoResponse
               /\ calls'[r] = calls[r]

C9_Replied(r) == pc[r] = "waiting" /\ reply[r] # NoReply

C9_Matching(r) ==
    IF reply[r].kind = "completion" /\ reply[r].choices # << >>
    THEN response[r].status = 200
    ELSE ServerError(response[r])

C9_Pending ==
    /\ []C9_NoResponseWhileWaiting
    /\ [][C9_NoTimeout]_vars
    /\ \A r \in ReqIds : C9_Replied(r) ~> (Finished(r) /\ C9_Matching(r))

C9_Witness ==
    \E r, s \in ReqIds :
        /\ pc[r] = "waiting" /\ reply[r] = NoReply
        /\ path[s] = "/qa" /\ Finished(s) /\ reply[s] # NoReply

\* C10: the credential is read from the environment once, at startup, before
\* any request is handled; no step after startup changes the process-wide
\* state; and startup does not depend on the credential being set.
C10_ReadOnce ==
    /\ (~started) => (envReads = 0 /\ \A r \in ReqIds : pc[r] = "new")
    /\ started => envReads = 1
    /\ started => api_key = (IF "OPENAI_API_KEY" \in DOMAIN environ
                             THEN environ["OPENAI_API_KEY"] ELSE None)
    /\ (~started) => ENABLED Startup

C10_Frame ==
    started => /\ started'
               /\ api_key' = api_key
               /\ envReads' = envReads
               /\ environ' = environ

C10_ProcessState == []C10_ReadOnce /\ [][C10_Frame]_vars

C10_Witness ==
    /\ environ = NoVars /\ started /\ api_key = None
    /\ \E r, s \in ReqIds :
          /\ path[r] = "/qa" /\ Finished(r) /\ reply[r] # NoReply
          /\ path[s] = "/" /\ Finished(s)

====
